---------------------------- MODULE Spec2Model ----------------------------
(***************************************************************************)
(* manifestor: the version-detail normalizer (manifest/mod.rs), the        *)
(* single-slot manifest cache (cache/mod.rs), the per-version cache and    *)
(* the two route handlers (api/mod.rs, manifest/mod.rs).                   *)
(*                                                                         *)
(* Time is counted in ticks of ten minutes, the largest unit in which both *)
(* TTLs are whole numbers.                                                 *)
(***************************************************************************)
EXTENDS Integers, Sequences, FiniteSets, TLC

VARIABLES
    doc,            \* normalizer harness: the detail document handed to parse_version_json
    parsed,         \* normalizer harness: <<>> before the call, <<result>> after it
    clock,          \* the monotonic clock (Instant::now()), in ticks
    cache,          \* VERSION_MANIFEST_CACHE: [data, updated_at], both Option
    mWriter,        \* holder of VERSION_MANIFEST_CACHE's write guard (NoProc when free)
    versionCache,   \* VERSION_CACHE: version id -> Option of [val, timestamp]
    pc,             \* per request task: its position in the handler
    loc,            \* per request task: the handler's local variables
    hist,           \* per request task: what the request observed and did (history)
    lastLock        \* history: the (data, now) of the caller that last took the write guard

vars == <<doc, parsed, clock, cache, mWriter, versionCache, pc, loc, hist, lastLock>>

-----------------------------------------------------------------------------
(* Bounds of the model.                                                    *)

MaxLibs == 2       \* longest `libraries` array of a generated detail document
MaxArgs == 3       \* longest `arguments.game` array of a generated detail document
MaxClock == 6      \* the clock stops advancing at this tick

(* Program constants, in ticks of ten minutes.                             *)
TTL == 5           \* cache/mod.rs: Duration::from_secs(60 * 50)
VERSION_TTL == 3   \* manifest/mod.rs: Duration::from_secs(60 * 30)

-----------------------------------------------------------------------------
(* Option<T>: None is the empty sequence, Some(x) the one-element one.     *)

None == <<>>
Some(x) == <<x>>
IsSome(o) == Len(o) = 1
IsNone(o) == Len(o) = 0

-----------------------------------------------------------------------------
(* serde_json::Value.  Every value is a record of the same four fields:    *)
(* k the kind, s the text of a string, n the number (a negative one stands *)
(* for any number as_u64 rejects), a the elements of an array or the       *)
(* <<key, value>> members of an object, in key order.                      *)

JNull == [k |-> "null", s |-> "", n |-> 0, a |-> <<>>]
JBool(b) == [k |-> "bool", s |-> "", n |-> IF b THEN 1 ELSE 0, a |-> <<>>]
JNum(x) == [k |-> "num", s |-> "", n |-> x, a |-> <<>>]
JStr(x) == [k |-> "str", s |-> x, n |-> 0, a |-> <<>>]
JArr(items) == [k |-> "arr", s |-> "", n |-> 0, a |-> items]
JObj(members) == [k |-> "obj", s |-> "", n |-> 0, a |-> members]

\* Value::get(&str): a member of an object, None for any other kind.
Get(v, key) ==
    IF v.k = "obj" /\ \E i \in 1..Len(v.a) : v.a[i][1] = key
    THEN Some(v.a[CHOOSE i \in 1..Len(v.a) : v.a[i][1] = key][2])
    ELSE None

\* opt.and_then(|x| x.get(key))
GetIn(opt, key) == IF IsNone(opt) THEN None ELSE Get(opt[1], key)

\* opt.and_then(Value::as_str)
as_str(opt) == IF IsSome(opt) /\ opt[1].k = "str" THEN Some(opt[1].s) ELSE None

\* opt.and_then(Value::as_u64)
as_u64(opt) == IF IsSome(opt) /\ opt[1].k = "num" /\ opt[1].n >= 0 THEN Some(opt[1].n) ELSE None

\* opt.and_then(Value::as_object): the members
as_object(opt) == IF IsSome(opt) /\ opt[1].k = "obj" THEN Some(opt[1].a) ELSE None

\* Option<String>::unwrap_or_default()
unwrap_or_default(o) == IF IsSome(o) THEN o[1] ELSE ""

\* str::split_whitespace, tabulated on the strings the generated documents
\* carry under `minecraftArguments`; a string without whitespace is one token.
split_whitespace(s) ==
    CASE s = "" -> <<>>
      [] s = "   " -> <<>>
      [] s = "--username ${auth_player_name} --version ${version_name}"
            -> <<"--username", "${auth_player_name}", "--version", "${version_name}">>
      [] s = " --demo  --fullscreen " -> <<"--demo", "--fullscreen">>
      [] OTHER -> <<s>>

-----------------------------------------------------------------------------
(* The version-detail normalizer: parse_version_json and extract_args.     *)

\* The closure extract_downloadable: all of url, sha1, size or nothing.
extract_downloadable(opt) ==
    LET url == as_str(GetIn(opt, "url"))
        sha1 == as_str(GetIn(opt, "sha1"))
        size == as_u64(GetIn(opt, "size"))
    IN  IF IsSome(opt) /\ IsSome(url) /\ IsSome(sha1) /\ IsSome(size)
        THEN Some([url |-> url[1], sha1 |-> sha1[1], size |-> size[1]])
        ELSE None

\* The body of `for (_os, classifier_val) in natives_map`: one pass for one
\* (platform, classifier) member; acc holds the three vectors being built.
\* Faulty variant: the hint is pushed for every classifier found, complete or not.
NativeStep_hintAlways(acc, lib, name, classifier_val) ==
    LET classifier_str == as_str(Some(classifier_val))
        downloads == GetIn(Get(lib, "downloads"), "classifiers")
        native == IF IsSome(classifier_str) THEN GetIn(downloads, classifier_str[1]) ELSE None
        url == as_str(GetIn(native, "url"))
        sha1 == as_str(GetIn(native, "sha1"))
        size == as_u64(GetIn(native, "size"))
        path == as_str(GetIn(native, "path"))
        extract == IsSome(GetIn(Get(lib, "extract"), "exclude"))
    IN  IF IsSome(native)
        THEN IF IsSome(url) /\ IsSome(sha1) /\ IsSome(size) /\ IsSome(path)
             THEN [acc EXCEPT
                    !.natives = Append(@, [name |-> name, classifier |-> classifier_str[1],
                                           url |-> url[1], sha1 |-> sha1[1],
                                           size |-> size[1], path |-> path[1]]),
                    !.requires_extraction =
                        Append(@, [path |-> path[1], requires_extraction |-> extract])]
             ELSE [acc EXCEPT
                    !.requires_extraction =
                        Append(@, [path |-> unwrap_or_default(path),
                                   requires_extraction |-> extract])]
        ELSE acc

NativeStep(acc, lib, name, classifier_val) ==
    LET classifier_str == as_str(Some(classifier_val))
        downloads == GetIn(Get(lib, "downloads"), "classifiers")
        native == IF IsSome(classifier_str) THEN GetIn(downloads, classifier_str[1]) ELSE None
        url == as_str(GetIn(native, "url"))
        sha1 == as_str(GetIn(native, "sha1"))
        size == as_u64(GetIn(native, "size"))
        path == as_str(GetIn(native, "path"))
        extract == IsSome(GetIn(Get(lib, "extract"), "exclude"))
    IN  IF IsSome(classifier_str) /\ IsSome(downloads) /\ IsSome(native)
           /\ IsSome(url) /\ IsSome(sha1) /\ IsSome(size) /\ IsSome(path)
        THEN [acc EXCEPT
                !.natives = Append(@, [name |-> name, classifier |-> classifier_str[1],
                                       url |-> url[1], sha1 |-> sha1[1],
                                       size |-> size[1], path |-> path[1]]),
                !.requires_extraction =
                    Append(@, [path |-> path[1], requires_extraction |-> extract])]
        ELSE acc

RECURSIVE NativesLoop(_, _, _, _, _)
NativesLoop(acc, lib, name, natives_map, i) ==
    IF i > Len(natives_map) THEN acc
    ELSE NativesLoop(NativeStep(acc, lib, name, natives_map[i][2]), lib, name, natives_map, i + 1)

\* The body of `for lib in libs`: the natives map is looked at first, the
\* direct artifact only when the entry has no natives object.
LibStep(acc, lib) ==
    LET name == unwrap_or_default(as_str(Get(lib, "name")))
        natives_map == as_object(Get(lib, "natives"))
        artifact == GetIn(Get(lib, "downloads"), "artifact")
    IN  IF IsSome(natives_map)
        THEN NativesLoop(acc, lib, name, natives_map[1], 1)
        ELSE IF IsSome(artifact)
             THEN [acc EXCEPT !.libraries = Append(@,
                      [name |-> name,
                       url |-> as_str(GetIn(artifact, "url")),
                       sha1 |-> as_str(GetIn(artifact, "sha1")),
                       size |-> as_u64(GetIn(artifact, "size")),
                       path |-> as_str(GetIn(artifact, "path"))])]
             ELSE acc

RECURSIVE LibsLoop(_, _, _)
LibsLoop(acc, libs, i) ==
    IF i > Len(libs) THEN acc ELSE LibsLoop(LibStep(acc, libs[i]), libs, i + 1)

\* The inner `for item in arr` of extract_args: the strings of an array value.
RECURSIVE ValueItems(_, _, _)
ValueItems(result, arr, i) ==
    IF i > Len(arr) THEN result
    ELSE ValueItems(IF arr[i].k = "str" THEN Append(result, arr[i].s) ELSE result, arr, i + 1)

\* The body of `for entry in entries` of extract_args.
\* Faulty variant: an element carrying `rules` is left out.
ArgStep_skipRuled(result, entry) ==
    CASE entry.k = "str" -> Append(result, entry.s)
      [] entry.k = "obj" ->
            LET value == Get(entry, "value")
            IN  IF IsSome(Get(entry, "rules")) THEN result
                ELSE IF IsSome(value) /\ value[1].k = "str" THEN Append(result, value[1].s)
                ELSE IF IsSome(value) /\ value[1].k = "arr" THEN ValueItems(result, value[1].a, 1)
                ELSE result
      [] OTHER -> result

ArgStep(result, entry) ==
    CASE entry.k = "str" -> Append(result, entry.s)
      [] entry.k = "obj" ->
            LET value == Get(entry, "value")
            IN  IF IsSome(value) /\ value[1].k = "str" THEN Append(result, value[1].s)
                ELSE IF IsSome(value) /\ value[1].k = "arr" THEN ValueItems(result, value[1].a, 1)
                ELSE result
      [] OTHER -> result

RECURSIVE ArgsLoop(_, _, _)
ArgsLoop(result, entries, i) ==
    IF i > Len(entries) THEN result ELSE ArgsLoop(ArgStep(result, entries[i]), entries, i + 1)

\* extract_args(value: Option<&Value>) -> Vec<String>
extract_args(value) ==
    IF IsSome(value) /\ value[1].k = "arr" THEN ArgsLoop(<<>>, value[1].a, 1) ELSE <<>>

\* parse_version_json: Result<NormalizedVersion, &'static str>.  The only
\* return of the function is the Ok(..) that ends it.
parse_version_json(version_json) ==
    LET id == unwrap_or_default(as_str(Get(version_json, "id")))
        release_time == as_str(Get(version_json, "releaseTime"))
        major == as_u64(GetIn(Get(version_json, "javaVersion"), "majorVersion"))
        java_version == IF IsSome(major) THEN Some(major[1] % 256) ELSE None
        client_jar == extract_downloadable(GetIn(Get(version_json, "downloads"), "client"))
        server_jar == extract_downloadable(GetIn(Get(version_json, "downloads"), "server"))
        a == Get(version_json, "assetIndex")
        asset_index ==
            IF IsSome(a)
            THEN Some([id |-> unwrap_or_default(as_str(GetIn(a, "id"))),
                       url |-> unwrap_or_default(as_str(GetIn(a, "url"))),
                       sha1 |-> unwrap_or_default(as_str(GetIn(a, "sha1"))),
                       size |-> LET z == as_u64(GetIn(a, "size")) IN IF IsSome(z) THEN z[1] ELSE 0])
            ELSE None
        libs == Get(version_json, "libraries")
        empty == [libraries |-> <<>>, natives |-> <<>>, requires_extraction |-> <<>>]
        acc == IF IsSome(libs) /\ libs[1].k = "arr" THEN LibsLoop(empty, libs[1].a, 1) ELSE empty
        args == Get(version_json, "arguments")
        legacy == as_str(Get(version_json, "minecraftArguments"))
        arguments ==
            IF IsSome(args)
            THEN [game |-> extract_args(GetIn(args, "game")), jvm |-> extract_args(GetIn(args, "jvm"))]
            ELSE IF IsSome(legacy)
                 THEN [game |-> split_whitespace(legacy[1]), jvm |-> <<>>]
                 ELSE [game |-> <<>>, jvm |-> <<>>]
    IN  [ok |-> TRUE, err |-> "",
         val |-> [id |-> id,
                  release_time |-> release_time,
                  java_version |-> java_version,
                  client_jar |-> client_jar,
                  server_jar |-> server_jar,
                  asset_index |-> asset_index,
                  libraries |-> acc.libraries,
                  natives |-> acc.natives,
                  arguments |-> arguments,
                  requires_extraction |-> acc.requires_extraction]]

-----------------------------------------------------------------------------
(* The detail documents the normalizer is run on.  A document is built     *)
(* from a selection: a record of small indices, one per part of the        *)
(* document, each index choosing one of the listed shapes of that part.    *)

Field(key, opt) == IF IsSome(opt) THEN << <<key, opt[1]>> >> ELSE <<>>

Classifier(url, sha1, size, path) ==
    JObj(Field("path", path) \o Field("sha1", sha1) \o Field("size", size) \o Field("url", url))

GoodClassifier(path) ==
    Classifier(Some(JStr("https://libs/" \o path)), Some(JStr("abc")), Some(JNum(10)), Some(JStr(path)))

\* `natives` of a library entry
NativesShapes ==
    << None,
       Some(JStr("natives-linux")),
       Some(JObj(<< <<"linux", JStr("natives-linux")>>, <<"osx", JStr("natives-osx")>> >>)),
       Some(JObj(<< <<"linux", JNum(5)>>, <<"windows", JStr("natives-windows")>> >>)) >>

\* `downloads.classifiers` of a library entry
ClassifiersShapes ==
    << None,
       Some(JObj(<< <<"natives-linux", GoodClassifier("a-linux.jar")>>,
                    <<"natives-osx", Classifier(Some(JStr("https://libs/a-osx.jar")), None,
                                                Some(JNum(10)), Some(JStr("a-osx.jar")))>> >>)),
       Some(JObj(<< <<"natives-linux", GoodClassifier("b-linux.jar")>>,
                    <<"natives-osx", GoodClassifier("b-osx.jar")>>,
                    <<"natives-windows", Classifier(Some(JStr("https://libs/b-win.jar")),
                                                    Some(JStr("abc")), Some(JNum(-1)),
                                                    Some(JStr("b-win.jar")))>> >>)) >>

\* `extract` of a library entry
ExtractShapes ==
    << None, Some(JObj(<< <<"exclude", JArr(<< JStr("META-INF/") >>)>> >>)) >>

\* `downloads.artifact` of a library entry
ArtifactShapes ==
    << None,
       Some(JObj(<< <<"path", JStr("c.jar")>>, <<"size", JNum(-1)>>, <<"url", JStr("https://libs/c.jar")>> >>)) >>

\* the library entries: those with a natives object in every combination of
\* classifiers and extract, those without in every combination of classifiers
\* and artifact, and one with a natives object and an artifact
LibSels ==
    [nat : {3, 4}, cls : 1..Len(ClassifiersShapes), ext : 1..Len(ExtractShapes), art : {1}]
    \cup [nat : {1, 2}, cls : 1..Len(ClassifiersShapes), ext : {1}, art : 1..Len(ArtifactShapes)]
    \cup {[nat |-> 3, cls |-> 2, ext |-> 2, art |-> 2]}

Lib(sel) ==
    LET downloads == Field("artifact", ArtifactShapes[sel.art])
                     \o Field("classifiers", ClassifiersShapes[sel.cls])
    IN  JObj((IF Len(downloads) > 0 THEN << <<"downloads", JObj(downloads)>> >> ELSE <<>>)
             \o Field("extract", ExtractShapes[sel.ext])
             \o << <<"name", JStr("org.lwjgl:lwjgl")>> >>
             \o Field("natives", NativesShapes[sel.nat]))

Rules == JArr(<< JObj(<< <<"action", JStr("allow")>>, <<"os", JObj(<< <<"name", JStr("osx")>> >>)>> >>) >>)

\* the elements an `arguments.game` / `arguments.jvm` array is made of
ArgShapes ==
    << JStr("--foo"),
       JNum(7),
       JObj(<< <<"value", JStr("--bar")>> >>),
       JObj(<< <<"rules", Rules>>, <<"value", JStr("--bar")>> >>),
       JObj(<< <<"value", JArr(<< JStr("--baz"), JStr("--qux") >>)>> >>),
       JObj(<< <<"rules", Rules>>, <<"value", JArr(<< JStr("--baz"), JNum(3), JStr("--qux") >>)>> >>),
       JObj(<< <<"rules", Rules>> >>),
       JObj(<< <<"rules", JStr("never")>>, <<"value", JNum(5)>> >>) >>

\* `arguments.jvm`
JvmShapes ==
    << None,
       Some(JStr("-Xmx2G")),
       Some(JArr(<< JStr("-Xss1M"), JObj(<< <<"rules", Rules>>, <<"value", JStr("-XstartOnFirstThread")>> >>) >>)) >>

\* `minecraftArguments`
LegacyShapes ==
    << None,
       Some(JStr("--username ${auth_player_name} --version ${version_name}")),
       Some(JStr(" --demo  --fullscreen ")),
       Some(JNum(1)) >>

\* `id`, `releaseTime`, `javaVersion`, `downloads`, `assetIndex`
IdShapes == << None, Some(JStr("1.20.1")), Some(JNum(120)) >>
JavaShapes ==
    << None, Some(JObj(<< <<"majorVersion", JNum(17)>> >>)), Some(JObj(<< <<"majorVersion", JNum(300)>> >>)),
       Some(JObj(<< <<"component", JStr("jre")>> >>)) >>
DownloadsShapes ==
    << None,
       Some(JObj(<< <<"client", JObj(<< <<"sha1", JStr("c1")>>, <<"size", JNum(5)>>, <<"url", JStr("https://dl/client.jar")>> >>)>>,
                    <<"server", JObj(<< <<"size", JNum(6)>>, <<"url", JStr("https://dl/server.jar")>> >>)>> >>)),
       Some(JStr("none")) >>
AssetShapes ==
    << None, Some(JObj(<< <<"id", JStr("5")>>, <<"size", JStr("big")>> >>)), Some(JNull) >>

\* documents that are not an object at top level
NonObjectDocs ==
    << JNull, JBool(TRUE), JNum(3), JStr("{}"), JArr(<<>>),
       JArr(<< JObj(<< <<"id", JStr("1.20.1")>> >>) >>) >>

SeqsUpTo(S, n) == UNION {[1..m -> S] : m \in 0..n}

\* sel.top = 0: an object built from the other indices; sel.top = i > 0:
\* NonObjectDocs[i].  sel.args: 1 no `arguments`, 2 an `arguments` object,
\* 3 `arguments` that is not an object.  sel.libsKind: 1 no `libraries`,
\* 2 the array of sel.libs, 3 `libraries` that is not an array.
BaseSel ==
    [top |-> 0, id |-> 2, java |-> 1, dl |-> 1, asset |-> 1, libs |-> <<>>, libsKind |-> 1,
     args |-> 1, game |-> <<>>, jvm |-> 1, legacy |-> 1]

Doc(sel) ==
    IF sel.top > 0 THEN NonObjectDocs[sel.top]
    ELSE JObj(
        (CASE sel.args = 1 -> <<>>
           [] sel.args = 2 -> << <<"arguments",
                                   JObj(<< <<"game", JArr([i \in 1..Len(sel.game) |-> ArgShapes[sel.game[i]]])>> >>
                                        \o Field("jvm", JvmShapes[sel.jvm]))>> >>
           [] OTHER -> << <<"arguments", JStr("--foo")>> >>)
        \o Field("assetIndex", AssetShapes[sel.asset])
        \o Field("downloads", DownloadsShapes[sel.dl])
        \o Field("id", IdShapes[sel.id])
        \o Field("javaVersion", JavaShapes[sel.java])
        \o (CASE sel.libsKind = 1 -> <<>>
              [] sel.libsKind = 2 -> << <<"libraries", JArr([i \in 1..Len(sel.libs) |-> Lib(sel.libs[i])])>> >>
              [] OTHER -> << <<"libraries", JStr("none")>> >>)
        \o Field("minecraftArguments", LegacyShapes[sel.legacy]))

-----------------------------------------------------------------------------
(* The upstream service, as the handlers see it.                           *)

\* the request tasks running at once: two, enough for every race between a pair
Procs == {1, 2}
NoProc == 0

\* what fetch_version_manifest returns on success (types/mod.rs VersionManifest)
UpstreamManifests ==
    << [latest_release |-> "1.21", latest_snapshot |-> "24w14a",
        versions |-> << [id |-> "1.21", url |-> "https://meta/1.21.json"],
                        [id |-> "1.20.1", url |-> "https://meta/1.20.1.json"] >>] >>

\* the ids requests ask for; "0.0" is in no upstream manifest
VersionIds == {"1.20.1", "0.0"}

\* the bodies upstream answers a detail-document request with
DetailDocs ==
    << Doc([BaseSel EXCEPT !.libsKind = 2, !.libs = << [nat |-> 3, cls |-> 2, ext |-> 2, art |-> 1] >>]),
       Doc([BaseSel EXCEPT !.top = 5]) >>

\* the closure get_versions hands to get_cached_manifest yields this on Err
EmptyManifest == [latest_release |-> "", latest_snapshot |-> "", versions |-> <<>>]

NoResp == [status |-> 0, text |-> "", manifest |-> None, version |-> None]

InitLoc ==
    [now |-> 0, new_manifest |-> None, version_id |-> "", version_url |-> "",
     result |-> None, resp |-> NoResp]

\* per request: the route taken, the upstream manifest and detail requests made,
\* the upstream failure met, whether the manifest fetched by get_version_by_id
\* lists the id, and whether VERSION_MANIFEST_CACHE held a fresh entry at that fetch
InitHist ==
    [route |-> "", mfetch |-> 0, dfetch |-> 0, failure |-> "", listed |-> "", besideFresh |-> FALSE]

\* Instant::duration_since saturates at zero when `earlier` is the later one
duration_since(later, earlier) == IF later >= earlier THEN later - earlier ELSE 0

-----------------------------------------------------------------------------
(* GET /manifest: get_versions, which is get_cached_manifest around the    *)
(* fetch closure.                                                          *)

\* Faulty variant: the per-version TTL is used for the manifest.
ManifestFresh_versionTTL(now, updated) == duration_since(now, updated) < VERSION_TTL

\* cache/mod.rs: `now.duration_since(updated) < TTL`
ManifestFresh(now, updated) == duration_since(now, updated) < TTL

\* entry of the handler: `let now = Instant::now();`
GetVersions(p) ==
    /\ pc[p] = "idle"
    /\ pc' = [pc EXCEPT ![p] = "m_read"]
    /\ loc' = [loc EXCEPT ![p].now = clock]
    /\ hist' = [hist EXCEPT ![p].route = "manifest"]
    /\ UNCHANGED <<doc, parsed, clock, cache, mWriter, versionCache, lastLock>>

\* the block holding the read guard: return the copy when fresh, else fall
\* through to the refresh
MRead(p) ==
    /\ pc[p] = "m_read"
    /\ mWriter = NoProc
    /\ IF IsSome(cache.data) /\ IsSome(cache.updated_at)
          /\ ManifestFresh(loc[p].now, cache.updated_at[1])
       THEN /\ pc' = [pc EXCEPT ![p] = "done"]
            /\ loc' = [loc EXCEPT ![p] = [InitLoc EXCEPT !.resp = [NoResp EXCEPT !.status = 200, !.manifest = cache.data]]]
       ELSE /\ pc' = [pc EXCEPT ![p] = "m_fetch"]
            /\ UNCHANGED loc
    /\ UNCHANGED <<doc, parsed, clock, cache, mWriter, versionCache, hist, lastLock>>

\* `fetch_fn().await`: the closure of get_versions turns Err into the empty manifest
\* Faulty variant: the closure lets the upstream failure through as a 502.
MFetch_propagate(p) ==
    /\ pc[p] = "m_fetch"
    /\ \/ \E i \in 1..Len(UpstreamManifests) :
            /\ loc' = [loc EXCEPT ![p].new_manifest = Some(UpstreamManifests[i])]
            /\ hist' = [hist EXCEPT ![p].mfetch = @ + 1]
            /\ pc' = [pc EXCEPT ![p] = "m_lock"]
       \/ /\ loc' = [loc EXCEPT ![p] = [InitLoc EXCEPT !.resp =
                       [NoResp EXCEPT !.status = 502, !.text = "Error obteniendo manifest"]]]
          /\ hist' = [hist EXCEPT ![p].mfetch = @ + 1,
                                  ![p].failure = "manifest"]
          /\ pc' = [pc EXCEPT ![p] = "done"]
    /\ UNCHANGED <<doc, parsed, clock, cache, mWriter, versionCache, lastLock>>

MFetch(p) ==
    /\ pc[p] = "m_fetch"
    /\ \/ \E i \in 1..Len(UpstreamManifests) :
            /\ loc' = [loc EXCEPT ![p].new_manifest = Some(UpstreamManifests[i])]
            /\ hist' = [hist EXCEPT ![p].mfetch = @ + 1]
       \/ /\ loc' = [loc EXCEPT ![p].new_manifest = Some(EmptyManifest)]
          /\ hist' = [hist EXCEPT ![p].mfetch = @ + 1,
                                  ![p].failure = "manifest"]
    /\ pc' = [pc EXCEPT ![p] = "m_lock"]
    /\ UNCHANGED <<doc, parsed, clock, cache, mWriter, versionCache, lastLock>>

\* `VERSION_MANIFEST_CACHE.write().await`: exclusive
\* Faulty variant: the guard does not exclude other writers.
MLock_shared(p) ==
    /\ pc[p] = "m_lock"
    /\ mWriter' = p
    /\ lastLock' = Some([data |-> loc[p].new_manifest[1], now |-> loc[p].now])
    /\ pc' = [pc EXCEPT ![p] = "m_wdata"]
    /\ UNCHANGED <<doc, parsed, clock, cache, versionCache, loc, hist>>

MLock(p) ==
    /\ pc[p] = "m_lock"
    /\ mWriter = NoProc
    /\ mWriter' = p
    /\ lastLock' = Some([data |-> loc[p].new_manifest[1], now |-> loc[p].now])
    /\ pc' = [pc EXCEPT ![p] = "m_wdata"]
    /\ UNCHANGED <<doc, parsed, clock, cache, versionCache, loc, hist>>

\* `write_guard.data = Some(new_manifest.clone());`
MWriteData(p) ==
    /\ pc[p] = "m_wdata"
    /\ cache' = [cache EXCEPT !.data = loc[p].new_manifest]
    /\ pc' = [pc EXCEPT ![p] = "m_wtime"]
    /\ UNCHANGED <<doc, parsed, clock, mWriter, versionCache, loc, hist, lastLock>>

\* `write_guard.updated_at = Some(now);` with the `now` taken on entry, then
\* `new_manifest` is returned, the guard dropped, and get_versions answers
\* Ok(Json(manifest))
MWriteTime(p) ==
    /\ pc[p] = "m_wtime"
    /\ cache' = [cache EXCEPT !.updated_at = Some(loc[p].now)]
    /\ mWriter' = NoProc
    /\ loc' = [loc EXCEPT ![p] = [InitLoc EXCEPT !.resp =
                 [NoResp EXCEPT !.status = 200, !.manifest = loc[p].new_manifest]]]
    /\ pc' = [pc EXCEPT ![p] = "done"]
    /\ UNCHANGED <<doc, parsed, clock, versionCache, hist, lastLock>>

-----------------------------------------------------------------------------
(* GET /version/{id}: get_version_by_id.  Each access to VERSION_CACHE     *)
(* holds its guard for that one access, so it is one step.                 *)

\* manifest/mod.rs: `timestamp.elapsed() < VERSION_TTL`
VersionFresh(timestamp) == duration_since(clock, timestamp) < VERSION_TTL

\* Faulty variant: the first entry is taken whatever its id.
FindUrl_firstEntry(versions, version_id) ==
    IF Len(versions) > 0 THEN Some(versions[1].url) ELSE None

\* `manifest.versions.iter().find(|v| v.id == version_id).map(|v| v.url.clone())`
FindUrl(versions, version_id) ==
    IF \E i \in 1..Len(versions) : versions[i].id = version_id
    THEN LET first == CHOOSE i \in 1..Len(versions) :
                          /\ versions[i].id = version_id
                          /\ \A j \in 1..(i - 1) : versions[j].id # version_id
         IN  Some(versions[first].url)
    ELSE None

\* whether VERSION_MANIFEST_CACHE holds an entry younger than its TTL right now
HoldsFresh ==
    IsSome(cache.data) /\ IsSome(cache.updated_at) /\ clock < cache.updated_at[1] + TTL

\* whether a manifest's version list has an entry with this id
Listed(manifest, version_id) == \E i \in 1..Len(manifest.versions) : manifest.versions[i].id = version_id

\* a handler returns: its locals are gone, the response is what is left
Respond(p, status, text) ==
    loc' = [loc EXCEPT ![p] = [InitLoc EXCEPT !.resp = [NoResp EXCEPT !.status = status, !.text = text]]]

GetVersionById(p, id) ==
    /\ pc[p] = "idle"
    /\ pc' = [pc EXCEPT ![p] = "v_read"]
    /\ loc' = [loc EXCEPT ![p].version_id = id]
    /\ hist' = [hist EXCEPT ![p].route = "version"]
    /\ UNCHANGED <<doc, parsed, clock, cache, mWriter, versionCache, lastLock>>

\* the block holding the read guard of VERSION_CACHE
VRead(p) ==
    /\ pc[p] = "v_read"
    /\ LET entry == versionCache[loc[p].version_id]
       IN  IF IsSome(entry) /\ VersionFresh(entry[1].timestamp)
           THEN /\ pc' = [pc EXCEPT ![p] = "done"]
                /\ loc' = [loc EXCEPT ![p] = [InitLoc EXCEPT !.resp =
                             [NoResp EXCEPT !.status = 200, !.version = Some(entry[1].val)]]]
           ELSE /\ pc' = [pc EXCEPT ![p] = "v_manifest"]
                /\ UNCHANGED loc
    /\ UNCHANGED <<doc, parsed, clock, cache, mWriter, versionCache, hist, lastLock>>

\* the rest of the handler once it holds a manifest: the lookup of the id
Resolve(p, manifest) ==
    LET version_url == FindUrl(manifest.versions, loc[p].version_id)
    IN  IF IsSome(version_url)
        THEN /\ loc' = [loc EXCEPT ![p].version_url = version_url[1]]
             /\ pc' = [pc EXCEPT ![p] = "v_detail"]
        ELSE /\ Respond(p, 404, "Versión no encontrada")
             /\ pc' = [pc EXCEPT ![p] = "done"]

\* `fetch_version_manifest().await` and the lookup of the id in its answer
\* Faulty variant: the manifest is taken through the top-level cache.
VFetchManifest_viaCache(p) ==
    /\ pc[p] = "v_manifest"
    /\ mWriter = NoProc
    /\ IF IsSome(cache.data) /\ IsSome(cache.updated_at) /\ ManifestFresh(clock, cache.updated_at[1])
       THEN /\ hist' = [hist EXCEPT ![p].listed =
                          IF Listed(cache.data[1], loc[p].version_id) THEN "yes" ELSE "no"]
            /\ Resolve(p, cache.data[1])
            /\ UNCHANGED cache
       ELSE \E i \in 1..Len(UpstreamManifests) :
              /\ hist' = [hist EXCEPT ![p].mfetch = @ + 1, ![p].listed =
                            IF Listed(UpstreamManifests[i], loc[p].version_id) THEN "yes" ELSE "no"]
              /\ cache' = [data |-> Some(UpstreamManifests[i]), updated_at |-> Some(clock)]
              /\ Resolve(p, UpstreamManifests[i])
    /\ UNCHANGED <<doc, parsed, clock, mWriter, versionCache, lastLock>>

VFetchManifest(p) ==
    /\ pc[p] = "v_manifest"
    /\ \/ /\ hist' = [hist EXCEPT ![p].mfetch = @ + 1, ![p].failure = "manifest",
                                  ![p].besideFresh = HoldsFresh]
          /\ Respond(p, 502, "Error obteniendo manifest")
          /\ pc' = [pc EXCEPT ![p] = "done"]
       \/ \E i \in 1..Len(UpstreamManifests) :
            /\ hist' = [hist EXCEPT ![p].mfetch = @ + 1, ![p].besideFresh = HoldsFresh, ![p].listed =
                          IF Listed(UpstreamManifests[i], loc[p].version_id) THEN "yes" ELSE "no"]
            /\ Resolve(p, UpstreamManifests[i])
    /\ UNCHANGED <<doc, parsed, clock, cache, mWriter, versionCache, lastLock>>

\* what get_version_by_id does with the parsed body: Err(msg) is a 502
Normalized(p, version_json) ==
    LET r == parse_version_json(version_json)
    IN  IF r.ok
        THEN /\ loc' = [loc EXCEPT ![p].result = Some(r.val)]
             /\ pc' = [pc EXCEPT ![p] = "v_insert"]
             /\ hist' = [hist EXCEPT ![p].dfetch = @ + 1]
        ELSE /\ Respond(p, 502, r.err)
             /\ pc' = [pc EXCEPT ![p] = "done"]
             /\ hist' = [hist EXCEPT ![p].dfetch = @ + 1, ![p].failure = "parse"]

\* `Client::new().get(&version_url).send().await`, then
\* `resp.error_for_status().unwrap().json::<Value>().await`, then parse_version_json
VFetchDetail(p) ==
    /\ pc[p] = "v_detail"
    /\ \/ \* send() fails
          /\ Respond(p, 502, "Error descargando JSON de la versión")
          /\ hist' = [hist EXCEPT ![p].dfetch = @ + 1, ![p].failure = "transport"]
          /\ pc' = [pc EXCEPT ![p] = "done"]
       \/ \* the response carries a 4xx/5xx status: unwrap() of the Err panics,
          \* the task ends without an answer
          /\ hist' = [hist EXCEPT ![p].dfetch = @ + 1, ![p].failure = "status"]
          /\ loc' = [loc EXCEPT ![p] = InitLoc]
          /\ pc' = [pc EXCEPT ![p] = "panicked"]
       \/ \* the body is not JSON
          /\ Respond(p, 502, "Error parseando JSON de la versión")
          /\ hist' = [hist EXCEPT ![p].dfetch = @ + 1, ![p].failure = "body"]
          /\ pc' = [pc EXCEPT ![p] = "done"]
       \/ \E i \in 1..Len(DetailDocs) : Normalized(p, DetailDocs[i])
    /\ UNCHANGED <<doc, parsed, clock, cache, mWriter, versionCache, lastLock>>

\* `cache.insert(version_id, (result.clone(), Instant::now()))` and the answer
VInsert(p) ==
    /\ pc[p] = "v_insert"
    /\ versionCache' = [versionCache EXCEPT ![loc[p].version_id] =
                          Some([val |-> loc[p].result[1], timestamp |-> clock])]
    /\ loc' = [loc EXCEPT ![p] = [InitLoc EXCEPT !.resp =
                 [NoResp EXCEPT !.status = 200, !.version = loc[p].result]]]
    /\ pc' = [pc EXCEPT ![p] = "done"]
    /\ UNCHANGED <<doc, parsed, clock, cache, mWriter, hist, lastLock>>

-----------------------------------------------------------------------------
(* The rest of the system.                                                 *)

\* the request is over (answered, or its task gone); the task slot takes the next one
Recycle(p) ==
    /\ pc[p] \in {"done", "panicked"}
    /\ pc' = [pc EXCEPT ![p] = "idle"]
    /\ loc' = [loc EXCEPT ![p] = InitLoc]
    /\ hist' = [hist EXCEPT ![p] = InitHist]
    /\ UNCHANGED <<doc, parsed, clock, cache, mWriter, versionCache, lastLock>>

\* time passes
Tick ==
    /\ clock < MaxClock
    /\ clock' = clock + 1
    /\ UNCHANGED <<doc, parsed, cache, mWriter, versionCache, pc, loc, hist, lastLock>>

\* cache/mod.rs and manifest/mod.rs: both statics start empty
Init ==
    /\ doc = JNull
    /\ parsed = None
    /\ clock = 0
    /\ cache = [data |-> None, updated_at |-> None]
    /\ mWriter = NoProc
    /\ versionCache = [id \in VersionIds |-> None]
    /\ pc = [p \in Procs |-> "idle"]
    /\ loc = [p \in Procs |-> InitLoc]
    /\ hist = [p \in Procs |-> InitHist]
    /\ lastLock = None

Next ==
    \/ Tick
    \/ \E p \in Procs :
        \/ GetVersions(p)
        \/ MRead(p)
        \/ MFetch(p)
        \/ MLock(p)
        \/ MWriteData(p)
        \/ MWriteTime(p)
        \/ \E id \in VersionIds : GetVersionById(p, id)
        \/ VRead(p)
        \/ VFetchManifest(p)
        \/ VFetchDetail(p)
        \/ VInsert(p)
        \/ Recycle(p)

Spec == Init /\ [][Next]_vars

-----------------------------------------------------------------------------
(* The normalizer on its own: one document in, one result out.             *)
(* The documents, by the part that varies: the top-level kind; the scalar  *)
(* members; the libraries; the arguments.                                  *)

InitNorm ==
    /\ \/ \E t \in 1..Len(NonObjectDocs) : doc = Doc([BaseSel EXCEPT !.top = t])
       \/ \E i \in 1..Len(IdShapes), j \in 1..Len(JavaShapes), d \in 1..Len(DownloadsShapes),
             a \in 1..Len(AssetShapes), lk \in {1, 3}, l \in 1..Len(LegacyShapes), g \in {1, 3} :
             doc = Doc([BaseSel EXCEPT !.id = i, !.java = j, !.dl = d, !.asset = a,
                                       !.libsKind = lk, !.legacy = l, !.args = g])
       \/ \E ls \in SeqsUpTo(LibSels, MaxLibs) :
             doc = Doc([BaseSel EXCEPT !.libs = ls, !.libsKind = 2])
       \/ \E g \in SeqsUpTo(1..Len(ArgShapes), MaxArgs), j \in 1..Len(JvmShapes), l \in {1, 2} :
             doc = Doc([BaseSel EXCEPT !.args = 2, !.game = g, !.jvm = j, !.legacy = l])
    /\ parsed = None
    /\ clock = 0
    /\ cache = [data |-> None, updated_at |-> None]
    /\ mWriter = NoProc
    /\ versionCache = [id \in VersionIds |-> None]
    /\ pc = [p \in Procs |-> "idle"]
    /\ loc = [p \in Procs |-> InitLoc]
    /\ hist = [p \in Procs |-> InitHist]
    /\ lastLock = None

Normalize ==
    /\ IsNone(parsed)
    /\ parsed' = Some(parse_version_json(doc))
    /\ UNCHANGED <<doc, clock, cache, mWriter, versionCache, pc, loc, hist, lastLock>>

NextNorm == Normalize

SpecNorm == InitNorm /\ [][NextNorm]_vars

-----------------------------------------------------------------------------
(* Claims about the normalizer, checked under SpecNorm.                    *)

\* C5: the normalizer signals a failure exactly when the document is not a
\* JSON object at top level: Ok for every object, Err for every non-object.
C5_ErrExactlyForNonObjects ==
    IsSome(parsed) => (parsed[1].ok <=> doc.k = "obj")

\* what one element of an argument array contributes, read off the claim:
\* a bare string itself, an object its string `value` or the strings of its
\* array `value`, anything else nothing
StringsOf(arr) ==
    LET strs == SelectSeq(arr, LAMBDA x : x.k = "str")
    IN  [i \in 1..Len(strs) |-> strs[i].s]

Contribution(e) ==
    IF e.k = "str" THEN <<e.s>>
    ELSE IF e.k = "obj" /\ IsSome(Get(e, "value"))
         THEN LET v == Get(e, "value")[1]
              IN  IF v.k = "str" THEN <<v.s>>
                  ELSE IF v.k = "arr" THEN StringsOf(v.a) ELSE <<>>
         ELSE <<>>

RECURSIVE Flattened(_)
Flattened(entries) ==
    IF Len(entries) = 0 THEN <<>> ELSE Contribution(Head(entries)) \o Flattened(Tail(entries))

\* the same array with every `rules` member removed from its object elements
WithoutRules(entries) ==
    [i \in 1..Len(entries) |->
        IF entries[i].k = "obj"
        THEN JObj(SelectSeq(entries[i].a, LAMBDA m : m[1] # "rules"))
        ELSE entries[i]]

ArgsArray(key) ==
    LET v == GetIn(Get(doc, "arguments"), key)
    IN  IF IsSome(v) /\ v[1].k = "arr" THEN v[1].a ELSE <<>>

\* C6: for a new-format document, `game` and `jvm` are, in source order, the
\* bare strings, the string values and the strings of the array values of the
\* array's elements, and are the same with every `rules` member removed.
C6_ArgsFlattenedRulesIgnored ==
    (IsSome(parsed) /\ IsSome(Get(doc, "arguments"))) =>
        /\ parsed[1].val.arguments.game = Flattened(ArgsArray("game"))
        /\ parsed[1].val.arguments.jvm = Flattened(ArgsArray("jvm"))
        /\ parsed[1].val.arguments.game = extract_args(Some(JArr(WithoutRules(ArgsArray("game")))))
        /\ parsed[1].val.arguments.jvm = extract_args(Some(JArr(WithoutRules(ArgsArray("jvm")))))

\* the mixed array of the example was normalized: a bare string, a ruled
\* string value and an array value
C6_Witness ==
    /\ IsSome(parsed)
    /\ Len(ArgsArray("game")) = 3
    /\ ArgsArray("game")[1].k = "str"
    /\ IsSome(Get(ArgsArray("game")[2], "rules"))
    /\ ArgsArray("game")[3].k = "obj"
    /\ parsed[1].val.arguments.game = <<"--foo", "--bar", "--baz", "--qux">>

LibsArray ==
    LET l == Get(doc, "libraries") IN IF IsSome(l) /\ l[1].k = "arr" THEN l[1].a ELSE <<>>

NativesMembers(lib) ==
    LET n == Get(lib, "natives") IN IF IsSome(n) /\ n[1].k = "obj" THEN n[1].a ELSE <<>>

\* every (library, member of its natives map) of the document
NativePairs ==
    UNION {{<<i, j>> : j \in 1..Len(NativesMembers(LibsArray[i]))} : i \in 1..Len(LibsArray)}

\* the classifier of the pair is under downloads.classifiers with url, sha1,
\* size and path all there
PairResolves(pr) ==
    LET lib == LibsArray[pr[1]]
        c == NativesMembers(lib)[pr[2]][2]
        entry == IF c.k = "str" THEN GetIn(GetIn(Get(lib, "downloads"), "classifiers"), c.s) ELSE None
    IN  /\ IsSome(entry)
        /\ IsSome(as_str(GetIn(entry, "url")))
        /\ IsSome(as_str(GetIn(entry, "sha1")))
        /\ IsSome(as_u64(GetIn(entry, "size")))
        /\ IsSome(as_str(GetIn(entry, "path")))

\* C7: `natives` and `requires_extraction` have the same length and the same
\* path at every index, and hold one entry for each (platform, classifier)
\* pair that resolves with url, sha1, size and path, none for any other pair.
C7_NativesPairedWithHints ==
    IsSome(parsed) =>
        LET out == parsed[1].val
        IN  /\ Len(out.natives) = Len(out.requires_extraction)
            /\ \A i \in 1..Len(out.natives) : out.natives[i].path = out.requires_extraction[i].path
            /\ Len(out.natives) = Cardinality({pr \in NativePairs : PairResolves(pr)})

\* a document with pairs that resolve and pairs that do not was normalized
C7_Witness ==
    /\ IsSome(parsed)
    /\ Len(parsed[1].val.natives) >= 2
    /\ Len(parsed[1].val.requires_extraction) >= 2
    /\ \E pr \in NativePairs : ~PairResolves(pr)

-----------------------------------------------------------------------------
(* Claims about the caches and the handlers, checked under Spec.           *)

\* what the claim C1 asks of one step of the request task p
C1_Step(p) ==
    /\ (pc[p] = "m_read" /\ pc'[p] # "m_read" /\ IsSome(cache.data) /\ IsSome(cache.updated_at)) =>
          /\ loc[p].now < cache.updated_at[1] + TTL =>
                /\ pc'[p] = "done"
                /\ loc'[p].resp.status = 200
                /\ loc'[p].resp.manifest = cache.data
                /\ hist'[p].mfetch = 0
                /\ cache' = cache
          /\ loc[p].now > cache.updated_at[1] + TTL => pc'[p] = "m_fetch"
    /\ (pc[p] = "m_fetch" /\ pc'[p] # "m_fetch") => hist'[p].mfetch = 1
    /\ (pc[p] = "v_read" /\ pc'[p] # "v_read" /\ IsSome(versionCache[loc[p].version_id])) =>
          LET entry == versionCache[loc[p].version_id][1]
          IN  /\ clock < entry.timestamp + VERSION_TTL =>
                    /\ pc'[p] = "done"
                    /\ loc'[p].resp.status = 200
                    /\ loc'[p].resp.version = Some(entry.val)
                    /\ hist'[p].mfetch = 0
                    /\ hist'[p].dfetch = 0
                    /\ versionCache' = versionCache
              /\ clock > entry.timestamp + VERSION_TTL => pc'[p] = "v_manifest"
    /\ (pc[p] = "v_manifest" /\ pc'[p] # "v_manifest") => hist'[p].mfetch = 1

\* C1: in both caches, a read made strictly before T + TTL of an entry
\* stamped T answers with the entry as it is and makes no upstream request;
\* a read made after T + TTL goes on to a fresh upstream fetch.
C1_Expiry == [][\A p \in Procs : C1_Step(p)]_vars

\* one request is refreshing an entry it read after T + TTL while another
\* was answered from the per-version cache
C1_Witness ==
    \E p, q \in Procs :
        /\ pc[p] = "m_fetch"
        /\ IsSome(cache.updated_at)
        /\ loc[p].now > cache.updated_at[1] + TTL
        /\ pc[q] = "done"
        /\ hist[q].route = "version"
        /\ hist[q].mfetch = 0
        /\ loc[q].resp.status = 200

\* what the claim C2 asks of one step of the request task p
C2_Step(p) ==
    /\ (hist'[p].route = "manifest" /\ pc'[p] = "done") => loc'[p].resp.status = 200
    /\ (hist'[p].route = "manifest" /\ hist'[p].failure # "") =>
          /\ pc'[p] \in {"m_lock", "m_wdata", "m_wtime"} => loc'[p].new_manifest = Some(EmptyManifest)
          /\ pc'[p] = "done" => loc'[p].resp.manifest = Some(EmptyManifest)
          /\ (pc[p] = "m_wtime" /\ pc'[p] = "done") =>
                cache' = [data |-> Some(EmptyManifest), updated_at |-> Some(loc[p].now)]
    /\ (/\ pc[p] = "m_read" /\ pc'[p] # "m_read"
        /\ cache.data = Some(EmptyManifest) /\ IsSome(cache.updated_at)
        /\ loc[p].now < cache.updated_at[1] + TTL) =>
          /\ pc'[p] = "done"
          /\ loc'[p].resp.status = 200
          /\ loc'[p].resp.manifest = Some(EmptyManifest)
          /\ hist'[p].mfetch = 0

\* C2: on /manifest an upstream failure gives the empty manifest, answered
\* as a success and stored with its timestamp like any other; a read within
\* the TTL of that entry answers the empty manifest without an upstream request.
C2_FailureCachedAsEmpty == [][\A p \in Procs : C2_Step(p)]_vars

\* a request was answered the cached empty manifest without going upstream
C2_Witness ==
    \E p \in Procs :
        /\ pc[p] = "done"
        /\ hist[p].route = "manifest"
        /\ hist[p].mfetch = 0
        /\ loc[p].resp.status = 200
        /\ loc[p].resp.manifest = Some(EmptyManifest)

\* C3: on /version/{id}, every upstream failure (manifest fetch, transport,
\* HTTP status, body that is not JSON, normalizer error) ends the request
\* with a 502 plain-text response.
C3_EveryFailureIs502 ==
    \A p \in Procs :
        (hist[p].route = "version" /\ hist[p].failure # "") =>
            /\ pc[p] = "done"
            /\ loc[p].resp.status = 502
            /\ loc[p].resp.text # ""

\* C4: when the fetched manifest lists no entry with the requested id the
\* request ends 404 with no detail-document request made; a detail-document
\* request is only made for an id the manifest lists, to the url found for it.
C4_NotFoundBeforeDetail ==
    \A p \in Procs :
        hist[p].route = "version" =>
            /\ hist[p].listed = "no" =>
                  /\ pc[p] = "done"
                  /\ loc[p].resp.status = 404
                  /\ hist[p].dfetch = 0
            /\ (hist[p].dfetch > 0 \/ pc[p] \in {"v_detail", "v_insert"}) => hist[p].listed = "yes"
            /\ pc[p] = "v_detail" =>
                  \E i \in 1..Len(UpstreamManifests) :
                      \E j \in 1..Len(UpstreamManifests[i].versions) :
                          /\ UpstreamManifests[i].versions[j].id = loc[p].version_id
                          /\ UpstreamManifests[i].versions[j].url = loc[p].version_url

\* a request for an id the manifest does not list was answered 404
C4_Witness ==
    \E p \in Procs :
        /\ hist[p].route = "version"
        /\ hist[p].listed = "no"
        /\ hist[p].mfetch = 1
        /\ loc[p].resp.status = 404

\* C8: the timestamp stored with a refreshed manifest is the time current
\* when it is stored, so the entry just stored is not yet expired.
C8_StoredTimestampIsCurrent ==
    [][\A p \in Procs :
          (pc[p] = "m_wtime" /\ pc'[p] = "done") =>
              /\ cache'.updated_at = Some(clock)
              /\ clock < cache'.updated_at[1] + TTL]_vars

\* the request tasks between taking and dropping the write guard
Writing == {p \in Procs : pc[p] \in {"m_wdata", "m_wtime"}}

\* C9: every caller that found no fresh entry made a refresh of its own;
\* writers exclude each other; and whenever no write is under way the slot
\* holds the data and the timestamp of the caller that took the write guard
\* last, both or neither.
C9_LastWriterWins ==
    /\ \A p \in Procs : pc[p] \in {"m_lock", "m_wdata", "m_wtime"} => hist[p].mfetch = 1
    /\ Cardinality(Writing) <= 1
    /\ (mWriter = NoProc) <=> (Writing = {})
    /\ mWriter # NoProc => Writing = {mWriter}
    /\ mWriter = NoProc =>
          IF IsSome(lastLock)
          THEN cache = [data |-> Some(lastLock[1].data), updated_at |-> Some(lastLock[1].now)]
          ELSE cache = [data |-> None, updated_at |-> None]

\* two callers each made a refresh, with different results, and both are
\* done: the slot holds what the last of them wrote
C9_Witness ==
    /\ mWriter = NoProc
    /\ \A p \in Procs :
          /\ pc[p] = "done"
          /\ hist[p].route = "manifest"
          /\ hist[p].mfetch = 1
    /\ \E p, q \in Procs : loc[p].resp.manifest # loc[q].resp.manifest
    /\ IsSome(lastLock)
    /\ cache.data = Some(lastLock[1].data)

\* what the claim C10 asks of one step of the request task p
C10_Step(p) ==
    (hist[p].route = "version" /\ pc'[p] # pc[p]) =>
        /\ cache' = cache
        /\ mWriter' = mWriter
        /\ IF pc[p] = "v_manifest"
           THEN hist[p].mfetch = 0 /\ hist'[p].mfetch = 1
           ELSE hist'[p].mfetch \in {hist[p].mfetch, 0}

\* C10: no step of get_version_by_id changes VERSION_MANIFEST_CACHE, and
\* after a per-version miss it makes exactly one upstream manifest fetch,
\* also when VERSION_MANIFEST_CACHE holds a fresh entry.
C10_ManifestCacheUntouched == [][\A p \in Procs : C10_Step(p)]_vars

\* get_version_by_id fetched the manifest upstream while the top-level
\* cache held a fresh entry
C10_Witness ==
    \E p \in Procs :
        /\ hist[p].route = "version"
        /\ hist[p].besideFresh
        /\ hist[p].mfetch = 1
        /\ pc[p] = "v_detail"
        /\ IsSome(cache.data)

=============================================================================
